---- MODULE Spec2Model ----
(***************************************************************************)
(* Feedback Alignment: FeedbackAlignmentFunction (forward / backward) and  *)
(* FeedbackAlignmentMLP (construction, reset_parameters, forward) of       *)
(* src/feedback_alignment.py.  Tensors carry their shape explicitly so     *)
(* that empty batches and shape errors are represented; entries are        *)
(* integers, arithmetic is exact.                                          *)
(***************************************************************************)
EXTENDS Integers, Sequences, FiniteSets, TLC

\* ---------------------------------------------------------------- bounds
MaxWidth == 2      \* a model's layer widths range over 1..MaxWidth
MaxHidden == 1     \* len(hidden_sizes) ranges over 0..MaxHidden
MaxBatch == 1      \* a model's batch sizes range over 0..MaxBatch
MaxSeed == 1       \* a model's random draws are indexed by seeds 0..MaxSeed
MaxSteps == 1      \* training iterations (forward, backward, optimizer step)
MaxLayers == 2     \* layers of a directly applied function: 1..MaxLayers
MaxFnWidth == 2    \* its widths range over 1..MaxFnWidth
MaxFnBatch == 2    \* its batch sizes are 0, 1 and MaxFnBatch
MaxFnSeed == 1     \* its tensors are indexed by seeds 0..MaxFnSeed
MaxVal == 1        \* drawn tensor entries range over -MaxVal..MaxVal

Widths == 1..MaxWidth
Batches == 0..MaxBatch
Seeds == 0..MaxSeed
FnWidths == 1..MaxFnWidth
FnBatches == {0, 1, MaxFnBatch}
FnSeeds == 0..MaxFnSeed

\* ------------------------------------------------------- tensor substrate
None == [kind |-> "None"]
ShapeError == [kind |-> "Error"]

\* a 2-D tensor of r rows and c columns with the entries f[i, j]
Tensor2(r, c, f) ==
    [kind |-> "Tensor", shape |-> <<r, c>>,
     data |-> [i \in 1..r |-> [j \in 1..c |-> f[i, j]]]]

\* a 1-D tensor of n entries f[j]
Tensor1(n, f) ==
    [kind |-> "Tensor", shape |-> <<n>>, data |-> [j \in 1..n |-> f[j]]]

\* one entry of a random draw (torch.randn, kaiming_uniform_, uninitialised
\* torch.Tensor storage, caller-supplied data): any value, indexed by a seed
Draw(seed, i, j) ==
    ((seed * (i + 2 * j + 1) + i * j + i) % (2 * MaxVal + 1)) - MaxVal

Rand2(seed, r, c) == Tensor2(r, c, [i \in 1..r, j \in 1..c |-> Draw(seed, i, j)])
Rand1(seed, n) == Tensor1(n, [j \in 1..n |-> Draw(seed, 1, j)])

RECURSIVE DotTo(_, _, _)
DotTo(u, v, k) == IF k = 0 THEN 0 ELSE u[k] * v[k] + DotTo(u, v, k - 1)

RECURSIVE ColSumTo(_, _, _)
ColSumTo(data, j, n) == IF n = 0 THEN 0 ELSE data[n][j] + ColSumTo(data, j, n - 1)

\* Tensor.t()
T(A) ==
    Tensor2(A.shape[2], A.shape[1],
            [i \in 1..A.shape[2], j \in 1..A.shape[1] |-> A.data[j][i]])

\* Tensor.matmul on two 2-D tensors; raises when the inner sizes differ
MatMul(A, B) ==
    IF A.shape[2] # B.shape[1] THEN ShapeError
    ELSE Tensor2(A.shape[1], B.shape[2],
                 [i \in 1..A.shape[1], j \in 1..B.shape[2] |->
                    DotTo(A.data[i], [k \in 1..A.shape[2] |-> B.data[k][j]], A.shape[2])])

\* broadcast of two sizes of one dimension; 0 - 1 when they do not broadcast
BroadcastDim(a, b) == IF a = b THEN a ELSE IF a = 1 THEN b ELSE IF b = 1 THEN a ELSE 0 - 1

\* 2-D tensor + 1-D tensor with broadcasting over the trailing dimension
AddBias(Z, b) ==
    LET c == BroadcastDim(Z.shape[2], b.shape[1]) IN
    IF c < 0 THEN ShapeError
    ELSE Tensor2(Z.shape[1], c,
                 [i \in 1..Z.shape[1], j \in 1..c |->
                    Z.data[i][IF Z.shape[2] = 1 THEN 1 ELSE j]
                    + b.data[IF b.shape[1] = 1 THEN 1 ELSE j]])

\* elementwise product of two 2-D tensors with broadcasting
Mul(A, B) ==
    LET r == BroadcastDim(A.shape[1], B.shape[1])
        c == BroadcastDim(A.shape[2], B.shape[2]) IN
    IF r < 0 \/ c < 0 THEN ShapeError
    ELSE Tensor2(r, c,
                 [i \in 1..r, j \in 1..c |->
                    A.data[IF A.shape[1] = 1 THEN 1 ELSE i][IF A.shape[2] = 1 THEN 1 ELSE j]
                    * B.data[IF B.shape[1] = 1 THEN 1 ELSE i][IF B.shape[2] = 1 THEN 1 ELSE j]])

\* A + sign * B on tensors of one shape (1-D or 2-D): gradient accumulation
\* (sign 1) and the optimizer's update (sign 0 - 1)
AddScaled(A, B, sign) ==
    IF Len(A.shape) = 2
    THEN Tensor2(A.shape[1], A.shape[2],
                 [i \in 1..A.shape[1], j \in 1..A.shape[2] |->
                    A.data[i][j] + sign * B.data[i][j]])
    ELSE Tensor1(A.shape[1], [j \in 1..A.shape[1] |-> A.data[j] + sign * B.data[j]])

\* torch.relu
Relu(Z) ==
    Tensor2(Z.shape[1], Z.shape[2],
            [i \in 1..Z.shape[1], j \in 1..Z.shape[2] |->
                IF Z.data[i][j] > 0 THEN Z.data[i][j] ELSE 0])

\* (z > 0).float()
GtZeroFloat(Z) ==
    Tensor2(Z.shape[1], Z.shape[2],
            [i \in 1..Z.shape[1], j \in 1..Z.shape[2] |->
                IF Z.data[i][j] > 0 THEN 1 ELSE 0])

\* Tensor.sum(0)
Sum0(D) == Tensor1(D.shape[2], [j \in 1..D.shape[2] |-> ColSumTo(D.data, j, D.shape[1])])

\* g.contiguous() if g is not None else None  (values are unchanged)
Contiguous(g) == IF g.kind = "None" THEN None ELSE g

\* ------------------------------------------- FeedbackAlignmentFunction
\* input = torch.relu(z) if i < len(weights) - 1 else z, with relu on every layer
activation_relu_all(z, i, n) == Relu(z)

\* input = torch.relu(z) if i < len(weights) - 1 else z
activation(z, i, n) == IF i < n - 1 THEN Relu(z) ELSE z

\* for i in range(len(weights)): ...   (i is the 0-based layer index)
\* matmuls counts the matrix products completed so far
RECURSIVE forward_loop(_, _, _, _, _, _, _)
forward_loop(i, input_, weights_, biases_, z_values, activations, matmuls_) ==
    IF i >= Len(weights_)
    THEN [ok |-> TRUE, input |-> input_, z_values |-> z_values,
          activations |-> activations, matmuls |-> matmuls_]
    ELSE LET mm == MatMul(input_, T(weights_[i + 1])) IN
         IF mm.kind = "Error"
         THEN [ok |-> FALSE, input |-> None, z_values |-> z_values,
               activations |-> activations, matmuls |-> matmuls_]
         ELSE LET z == AddBias(mm, biases_[i + 1]) IN
              IF z.kind = "Error"
              THEN [ok |-> FALSE, input |-> None, z_values |-> z_values,
                    activations |-> activations, matmuls |-> matmuls_ + 1]
              ELSE LET nxt == activation(z, i, Len(weights_)) IN
                   forward_loop(i + 1, nxt, weights_, biases_, Append(z_values, z),
                                Append(activations, nxt), matmuls_ + 1)

\* FeedbackAlignmentFunction.forward(ctx, input, *params)
forward(input_, params) ==
    LET num_layers == Len(params) \div 3
        weights_ == SubSeq(params, 1, num_layers)
        biases_ == SubSeq(params, num_layers + 1, 2 * num_layers)
        feedback_ == SubSeq(params, 2 * num_layers + 1, 3 * num_layers)
        r == forward_loop(0, input_, weights_, biases_, <<>>, <<input_>>, 0)
    IN  [ok |-> r.ok, out |-> r.input, matmuls |-> r.matmuls,
         ctx |-> [saved_tensors |-> weights_ \o biases_ \o feedback_
                                    \o r.z_values \o r.activations,
                  num_layers |-> Len(weights_)]]

\* grad_weights[i] with the activation that left layer i instead of entering it
grad_weight_output_activation(delta, activations, i) ==
    MatMul(T(delta), activations[i + 2])

\* grad_weights[i] with the product taken the other way round
grad_weight_untransposed(delta, activations, i) ==
    MatMul(T(activations[i + 1]), delta)

\* grad_weights[i] = delta.t().matmul(activations[i])
grad_weight(delta, activations, i) == MatMul(T(delta), activations[i + 1])

\* grad_biases[i] summed over the feature axis instead of the batch axis
grad_bias_axis1(delta) ==
    Tensor1(delta.shape[1],
            [n \in 1..delta.shape[1] |->
                DotTo(delta.data[n], [k \in 1..delta.shape[2] |-> 1], delta.shape[2])])

\* grad_biases[i] = delta.sum(0)
grad_bias(delta) == Sum0(delta)

\* the error propagated through the forward weight, as backpropagation would
prev_delta_forward_weight(delta, saved_tensors, num_layers, i) ==
    LET weights_ == SubSeq(saved_tensors, 1, num_layers)
        z_values == SubSeq(saved_tensors, 3 * num_layers + 1, 4 * num_layers)
        back == MatMul(delta, weights_[i + 1])
    IN  IF back.kind = "Error" THEN ShapeError ELSE Mul(back, GtZeroFloat(z_values[i]))

\* delta = delta.matmul(feedback_matrices[i]) * (z_values[i-1] > 0).float()
prev_delta(delta, saved_tensors, num_layers, i) ==
    LET feedback_ == SubSeq(saved_tensors, 2 * num_layers + 1, 3 * num_layers)
        z_values == SubSeq(saved_tensors, 3 * num_layers + 1, 4 * num_layers)
        back == MatMul(delta, feedback_[i + 1])
    IN  IF back.kind = "Error" THEN ShapeError ELSE Mul(back, GtZeroFloat(z_values[i]))

\* the return value without the leading None for the input
backward_return_no_input_slot(grad_weights, grad_biases, grad_feedback_matrices) ==
    grad_weights \o grad_biases \o grad_feedback_matrices

\* return None, *grad_weights, *grad_biases, *grad_feedback_matrices
backward_return(grad_weights, grad_biases, grad_feedback_matrices) ==
    <<None>> \o grad_weights \o grad_biases \o grad_feedback_matrices

\* for i in reversed(range(num_layers)): ...
\* deltas[i + 1] records the value of the local delta in iteration i
RECURSIVE backward_loop(_, _, _, _, _, _, _)
backward_loop(i, delta, saved_tensors, num_layers, grad_weights, grad_biases, deltas_) ==
    IF i < 0
    THEN [ok |-> TRUE, grad_weights |-> grad_weights, grad_biases |-> grad_biases,
          deltas |-> deltas_]
    ELSE LET activations == SubSeq(saved_tensors, 4 * num_layers + 1, Len(saved_tensors))
             gw == grad_weight(delta, activations, i)
             gb == grad_bias(delta)
             seen == [deltas_ EXCEPT ![i + 1] = delta]
             nd == IF i > 0 THEN prev_delta(delta, saved_tensors, num_layers, i) ELSE delta
         IN  IF gw.kind = "Error" \/ nd.kind = "Error"
             THEN [ok |-> FALSE, grad_weights |-> grad_weights,
                   grad_biases |-> grad_biases, deltas |-> seen]
             ELSE backward_loop(i - 1, nd, saved_tensors, num_layers,
                                [grad_weights EXCEPT ![i + 1] = gw],
                                [grad_biases EXCEPT ![i + 1] = gb], seen)

\* FeedbackAlignmentFunction.backward(ctx, grad_output)
backward(ctx_, grad_output_) ==
    LET saved_tensors == ctx_.saved_tensors
        num_layers == ctx_.num_layers
        feedback_ == SubSeq(saved_tensors, 2 * num_layers + 1, 3 * num_layers)
        delta == grad_output_
        nones == [k \in 1..num_layers |-> None]
        r == backward_loop(num_layers - 1, delta, saved_tensors, num_layers,
                           nones, nones, nones)
    IN  [ok |-> r.ok, deltas |-> r.deltas,
         ret |-> IF r.ok
                 THEN backward_return([k \in 1..num_layers |-> Contiguous(r.grad_weights[k])],
                                      [k \in 1..num_layers |-> Contiguous(r.grad_biases[k])],
                                      [k \in 1..Len(feedback_) |-> None])
                 ELSE <<>>]

\* ------------------------------------------------ FeedbackAlignmentMLP
\* the weight created with its two sizes exchanged
weight_shape_swapped(size, prev_size) == <<prev_size, size>>

\* torch.Tensor(hidden_size, prev_size) / torch.Tensor(output_size, prev_size)
weight_shape(size, prev_size) == <<size, prev_size>>

\* nn.Parameter(torch.Tensor(size, prev_size)): uninitialised storage
new_weight(size, prev_size, seed) ==
    Rand2(seed, weight_shape(size, prev_size)[1], weight_shape(size, prev_size)[2])

\* nn.Parameter(torch.Tensor(size)): uninitialised storage
new_bias(size, seed) == Rand1(seed, size)

\* nn.Parameter(torch.randn(size, prev_size), requires_grad=False)
new_feedback(size, prev_size, fseed) == Rand2(fseed, size, prev_size)

\* reset_parameters that also redraws the feedback matrices
reset_parameters_all(model, seed) ==
    [weights |-> [k \in 1..Len(model.weights) |->
                    Rand2(seed + k, model.weights[k].shape[1], model.weights[k].shape[2])],
     biases |-> [k \in 1..Len(model.biases) |->
                    Tensor1(model.biases[k].shape[1],
                            [j \in 1..model.biases[k].shape[1] |-> 0])],
     feedback_matrices |-> [k \in 1..Len(model.feedback_matrices) |->
                    Rand2(seed + k + 2, model.feedback_matrices[k].shape[1],
                          model.feedback_matrices[k].shape[2])]]

\* FeedbackAlignmentMLP.reset_parameters: kaiming_uniform_ on every weight
\* (a fresh random draw), constant_(bias, 0) on every bias
reset_parameters(model, seed) ==
    [weights |-> [k \in 1..Len(model.weights) |->
                    Rand2(seed + k, model.weights[k].shape[1], model.weights[k].shape[2])],
     biases |-> [k \in 1..Len(model.biases) |->
                    Tensor1(model.biases[k].shape[1],
                            [j \in 1..model.biases[k].shape[1] |-> 0])],
     feedback_matrices |-> model.feedback_matrices]

\* for hidden_size in hidden_sizes: ...   (k is the 1-based position)
RECURSIVE init_loop(_, _, _, _, _, _)
init_loop(k, prev_size, hidden_sizes, seed, fseed, model) ==
    IF k > Len(hidden_sizes)
    THEN [prev_size |-> prev_size, model |-> model]
    ELSE LET hidden_size == hidden_sizes[k] IN
         init_loop(k + 1, hidden_size, hidden_sizes, seed, fseed,
                   [weights |-> Append(model.weights, new_weight(hidden_size, prev_size, seed + k)),
                    biases |-> Append(model.biases, new_bias(hidden_size, seed + k)),
                    feedback_matrices |-> Append(model.feedback_matrices,
                                                 new_feedback(hidden_size, prev_size, fseed + k))])

\* FeedbackAlignmentMLP.__init__(input_size, hidden_sizes, output_size)
\* seed: uninitialised storage and the kaiming draw; fseed: torch.randn
init(input_size, hidden_sizes, output_size, seed, fseed) ==
    LET empty == [weights |-> <<>>, biases |-> <<>>, feedback_matrices |-> <<>>]
        l == init_loop(1, input_size, hidden_sizes, seed, fseed, empty)
        n == Len(hidden_sizes) + 1
        withWB == [weights |-> Append(l.model.weights,
                                      new_weight(output_size, l.prev_size, seed + n)),
                   biases |-> Append(l.model.biases, new_bias(output_size, seed + n)),
                   feedback_matrices |-> l.model.feedback_matrices]
    IN  IF Len(hidden_sizes) = 0
        THEN \* hidden_sizes[-1] raises on an empty list
             [ok |-> FALSE, err |-> "IndexError", model |-> withWB]
        ELSE LET full == [withWB EXCEPT !.feedback_matrices =
                            Append(@, new_feedback(output_size,
                                                   hidden_sizes[Len(hidden_sizes)],
                                                   fseed + n))]
             IN  [ok |-> TRUE, err |-> "none", model |-> reset_parameters(full, seed)]

\* ------------------------------------------------------ autograd, optimizer
\* requires_grad of the three parameter lists
requires_grad == [weights |-> TRUE, biases |-> TRUE, feedback_matrices |-> FALSE]

Expandable(shape, gshape) ==
    /\ Len(shape) = Len(gshape)
    /\ \A d \in 1..Len(shape) : shape[d] = gshape[d] \/ shape[d] = 1

\* the engine sums a returned gradient down to the shape of its input
ReduceGrad(g, shape) ==
    IF g.shape = shape THEN g
    ELSE IF Len(shape) = 1
    THEN Tensor1(1, [j \in 1..1 |-> DotTo(g.data, [k \in 1..g.shape[1] |-> 1], g.shape[1])])
    ELSE LET overRows == IF shape[1] = 1 /\ g.shape[1] # 1
                         THEN Tensor2(1, g.shape[2],
                                      [i \in 1..1, j \in 1..g.shape[2] |->
                                          ColSumTo(g.data, j, g.shape[1])])
                         ELSE g
         IN  IF shape[2] = 1 /\ g.shape[2] # 1
             THEN Tensor2(overRows.shape[1], 1,
                          [i \in 1..overRows.shape[1], j \in 1..1 |->
                              DotTo(overRows.data[i], [k \in 1..g.shape[2] |-> 1],
                                    g.shape[2])])
             ELSE overRows

\* the gradients the engine is handed are usable for these inputs
GradsValid(params, rets, req) ==
    \A k \in 1..Len(params) :
        (req /\ rets[k].kind # "None") => Expandable(params[k].shape, rets[k].shape)

\* param.grad after the engine has accumulated the returned gradients
Accumulate(params, grads, rets, req) ==
    [k \in 1..Len(params) |->
        IF ~req \/ rets[k].kind = "None" THEN grads[k]
        ELSE LET g == ReduceGrad(rets[k], params[k].shape) IN
             IF grads[k].kind = "None" THEN g
             ELSE AddScaled(grads[k], g, 1)]

\* one gradient-descent update (learning rate 1) of the parameters that
\* have a gradient
Update(params, grads) ==
    [k \in 1..Len(params) |->
        IF grads[k].kind = "None" THEN params[k]
        ELSE AddScaled(params[k], grads[k], 0 - 1)]

\* ------------------------------------------------------------------ state
VARIABLES
    pc,                 \* "new", "ready", "forwarded", "backwarded", "dead"
    config,             \* the constructor's arguments
    weights,            \* self.weights
    biases,             \* self.biases
    feedback_matrices,  \* self.feedback_matrices
    grad,               \* .grad of every parameter, by list
    ctx,                \* saved_tensors and num_layers of the last forward
    input,              \* argument of the last forward call
    output,             \* result of the last forward call
    matmuls,            \* matrix products the last forward call completed
    grad_output,        \* argument of the last backward call
    ret,                \* tuple returned by the last backward call
    deltas,             \* the local delta of the last backward call, per layer
    err,                \* exception raised by the last call, or "none"
    last,               \* the last operation called
    nsteps              \* training iterations started (forward calls made)

vars == <<pc, config, weights, biases, feedback_matrices, grad, ctx, input, output,
          matmuls, grad_output, ret, deltas, err, last, nsteps>>

NoConfig == [input_size |-> 0, hidden_sizes |-> <<>>, output_size |-> 0]
NoCtx == [saved_tensors |-> <<>>, num_layers |-> 0]
NoGrad(n) == [weights |-> [k \in 1..n |-> None], biases |-> [k \in 1..n |-> None],
              feedback_matrices |-> [k \in 1..n |-> None]]
params == weights \o biases \o feedback_matrices

Fresh ==
    /\ ctx = NoCtx /\ input = None /\ output = None /\ matmuls = 0
    /\ grad_output = None /\ ret = <<>> /\ deltas = <<>> /\ err = "none"
    /\ last = "none" /\ nsteps = 0

\* before the constructor has run
Init ==
    /\ pc = "new" /\ config = NoConfig
    /\ weights = <<>> /\ biases = <<>> /\ feedback_matrices = <<>>
    /\ grad = NoGrad(0)
    /\ Fresh

HiddenSizes == UNION {[1..n -> Widths] : n \in 0..MaxHidden}

\* FeedbackAlignmentMLP(input_size, hidden_sizes, output_size)
Construct ==
    /\ pc = "new"
    /\ \E input_size \in Widths, hidden_sizes \in HiddenSizes, output_size \in Widths,
          seed \in Seeds :
         LET r == init(input_size, hidden_sizes, output_size, seed, seed + 1) IN
         /\ config' = [input_size |-> input_size, hidden_sizes |-> hidden_sizes,
                       output_size |-> output_size]
         /\ weights' = r.model.weights
         /\ biases' = r.model.biases
         /\ feedback_matrices' = r.model.feedback_matrices
         /\ grad' = NoGrad(Len(r.model.weights))
         /\ pc' = IF r.ok THEN "ready" ELSE "dead"
         /\ err' = r.err
    /\ last' = "construct"
    /\ UNCHANGED <<ctx, input, output, matmuls, grad_output, ret, deltas, nsteps>>

\* the observations of the last forward / backward call are dropped
Forget ==
    /\ ctx' = NoCtx /\ input' = None /\ output' = None /\ matmuls' = 0
    /\ grad_output' = None /\ ret' = <<>> /\ deltas' = <<>>

\* FeedbackAlignmentFunction.apply(x, *params): forward runs now
Apply(x) ==
    LET r == forward(x, params) IN
    /\ input' = x
    /\ matmuls' = r.matmuls
    /\ output' = r.out
    /\ ctx' = IF r.ok THEN r.ctx ELSE NoCtx
    /\ pc' = IF r.ok THEN "forwarded" ELSE "ready"
    /\ err' = IF r.ok THEN "none" ELSE "RuntimeError"
    /\ last' = "forward"
    /\ nsteps' = nsteps + 1
    /\ grad_output' = None /\ ret' = <<>> /\ deltas' = <<>>
    /\ UNCHANGED <<config, weights, biases, feedback_matrices, grad>>

\* the engine calls FeedbackAlignmentFunction.backward(ctx, grad_output) with a
\* grad_output of the output's shape and accumulates what it returns
Backpropagate(g) ==
    LET r == backward(ctx, g)
        n == ctx.num_layers
        gw == SubSeq(r.ret, 2, n + 1)
        gb == SubSeq(r.ret, n + 2, 2 * n + 1)
        gf == SubSeq(r.ret, 2 * n + 2, 3 * n + 1)
        valid == /\ r.ok
                 /\ Len(r.ret) = 3 * n + 1
                 /\ GradsValid(weights, gw, requires_grad.weights)
                 /\ GradsValid(biases, gb, requires_grad.biases)
                 /\ GradsValid(feedback_matrices, gf, requires_grad.feedback_matrices)
    IN  /\ grad_output' = g
        /\ ret' = r.ret
        /\ deltas' = r.deltas
        /\ err' = IF valid THEN "none" ELSE "RuntimeError"
        /\ grad' = IF valid
                   THEN [weights |-> Accumulate(weights, grad.weights, gw,
                                                requires_grad.weights),
                         biases |-> Accumulate(biases, grad.biases, gb,
                                               requires_grad.biases),
                         feedback_matrices |->
                             Accumulate(feedback_matrices, grad.feedback_matrices, gf,
                                        requires_grad.feedback_matrices)]
                   ELSE grad
        /\ pc' = "backwarded"
        /\ last' = "backward"
        /\ UNCHANGED <<config, weights, biases, feedback_matrices, ctx, input, output,
                       matmuls, nsteps>>

\* FeedbackAlignmentMLP.forward(input), on a batch of n rows of the model's
\* input width
Forward ==
    /\ pc = "ready"
    /\ config # NoConfig
    /\ nsteps < MaxSteps
    /\ \E n \in Batches : Apply(Rand2(n, n, config.input_size))

\* output.sum().backward() on a constructed model's output: grad_output is
\* filled with 1
Backward ==
    /\ pc = "forwarded"
    /\ config # NoConfig
    /\ Backpropagate(Tensor2(output.shape[1], output.shape[2],
                             [i \in 1..output.shape[1], j \in 1..output.shape[2] |-> 1]))

\* optimizer.step(); optimizer.zero_grad(): every parameter that has a
\* gradient is updated, then the gradients are cleared
OptimizerStep ==
    /\ pc = "backwarded"
    /\ config # NoConfig
    /\ weights' = Update(weights, grad.weights)
    /\ biases' = Update(biases, grad.biases)
    /\ feedback_matrices' = Update(feedback_matrices, grad.feedback_matrices)
    /\ grad' = NoGrad(Len(weights))
    /\ pc' = "ready"
    /\ last' = "step"
    /\ err' = "none"
    /\ Forget
    /\ UNCHANGED <<config, nsteps>>

\* FeedbackAlignmentMLP.reset_parameters()
ResetParameters ==
    /\ pc = "ready"
    /\ config # NoConfig
    /\ \E seed \in Seeds :
         LET m == reset_parameters([weights |-> weights, biases |-> biases,
                                    feedback_matrices |-> feedback_matrices], seed)
         IN  /\ weights' = m.weights
             /\ biases' = m.biases
             /\ feedback_matrices' = m.feedback_matrices
    /\ last' = "reset"
    /\ err' = "none"
    /\ Forget
    /\ UNCHANGED <<pc, config, grad, nsteps>>

Next == Construct \/ Forward \/ Backward \/ OptimizerStep \/ ResetParameters

Spec == Init /\ [][Next]_vars

\* FeedbackAlignmentFunction.apply called directly on tensors of the caller's
\* choosing: any number of layers and any widths; the layers chain, or one
\* weight's input width or one bias's length is off
Defects(n) == {<<"none", 0, 0>>} \cup ({"in", "bias"} \X (1..n) \X FnWidths)

InitFn ==
    /\ pc = "ready" /\ config = NoConfig
    /\ \E n \in 1..MaxLayers :
         \E w \in [0..n -> FnWidths], defect \in Defects(n), seed \in FnSeeds :
            LET in(k) == IF defect = <<"in", k, defect[3]>> THEN defect[3] ELSE w[k - 1]
                bias(k) == IF defect = <<"bias", k, defect[3]>> THEN defect[3] ELSE w[k]
            IN  /\ weights = [k \in 1..n |-> Rand2(seed + k, w[k], in(k))]
                /\ biases = [k \in 1..n |-> Rand1(seed + k + 1, bias(k))]
                /\ feedback_matrices = [k \in 1..n |-> Rand2(seed + k + 1, w[k], in(k))]
                /\ grad = NoGrad(n)
    /\ Fresh

\* the weights and biases chain
ChainConsistent ==
    /\ \A k \in 2..Len(weights) : weights[k].shape[2] = weights[k - 1].shape[1]
    /\ \A k \in 1..Len(weights) : biases[k].shape = <<weights[k].shape[1]>>

\* FeedbackAlignmentFunction.apply(input, *params), on a batch of the first
\* weight's input width or, when the parameters chain, of any width
ApplyFunction ==
    /\ pc = "ready"
    /\ config = NoConfig
    /\ last = "none"
    /\ \E n \in FnBatches, seed \in FnSeeds,
          w \in IF ChainConsistent THEN FnWidths ELSE {weights[1].shape[2]} :
         Apply(Rand2(seed, n, w))

\* backward of a directly applied function, on any grad_output of the
\* output's shape
BackwardFunction ==
    /\ pc = "forwarded"
    /\ config = NoConfig
    /\ \E seed \in FnSeeds : Backpropagate(Rand2(seed, output.shape[1], output.shape[2]))

NextFn == ApplyFunction \/ BackwardFunction

SpecFn == InitFn /\ [][NextFn]_vars

\* ----------------------------------------------------------- properties
RECURSIVE SumFn(_, _)
SumFn(f, n) == IF n = 0 THEN 0 ELSE f[n] + SumFn(f, n - 1)

L == Len(weights)
\* the tensors the last forward call saved (0-based layer index i)
SavedF(i) == ctx.saved_tensors[2 * ctx.num_layers + i + 1]
SavedZ(i) == ctx.saved_tensors[3 * ctx.num_layers + i + 1]
SavedA(i) == ctx.saved_tensors[4 * ctx.num_layers + i + 1]
\* the positions of the tuple the last backward call returned
RetW(i) == ret[1 + i + 1]
RetB(i) == ret[1 + L + i + 1]
RetF(i) == ret[1 + 2 * L + i + 1]

Forwarded == last = "forward" /\ err = "none"
Returned == last = "backward" /\ ret # <<>>

\* the shapes of an input, the weights and the biases chain
ShapeConsistent(x, ws, bs) ==
    /\ x.shape[2] = ws[1].shape[2]
    /\ \A k \in 2..Len(ws) : ws[k].shape[2] = ws[k - 1].shape[1]
    /\ \A k \in 1..Len(ws) : bs[k].shape = <<ws[k].shape[1]>>

NonZero2(A) == \E i \in 1..A.shape[1], j \in 1..A.shape[2] : A.data[i][j] # 0

\* C1: once the model is constructed, no operation (forward, backward,
\* optimizer step, reset_parameters) changes any feedback matrix
C1_FeedbackNeverUpdates ==
    [][pc # "new" => feedback_matrices' = feedback_matrices]_vars

C1_Witness ==
    /\ pc = "ready" /\ last = "reset" /\ nsteps > 0
    /\ \A k \in 1..L : NonZero2(feedback_matrices[k])

\* C2: backward returns 1 + 3L values: None for the input, a tensor for every
\* weight and every bias, None for every feedback matrix
C2_BackwardReturnLayout ==
    Returned =>
        /\ Len(ret) = 1 + 3 * L
        /\ ret[1].kind = "None"
        /\ \A i \in 0..L - 1 :
              /\ RetW(i).kind = "Tensor" /\ Len(RetW(i).shape) = 2
              /\ RetB(i).kind = "Tensor" /\ Len(RetB(i).shape) = 1
              /\ RetF(i).kind = "None"

C2_Witness == Returned /\ L = MaxLayers /\ grad_output.shape[1] > 0

\* C3: the delta of layer i-1 is (delta_i times F_i) where z_{i-1} > 0 and 0
\* where z_{i-1} <= 0
C3_DeltaThroughFeedback ==
    Returned =>
        \A i \in 1..L - 1 :
            /\ deltas[i].shape = SavedZ(i - 1).shape
            /\ \A n \in 1..deltas[i].shape[1], j \in 1..deltas[i].shape[2] :
                  deltas[i].data[n][j] =
                      IF SavedZ(i - 1).data[n][j] > 0
                      THEN SumFn([k \in 1..deltas[i + 1].shape[2] |->
                                    deltas[i + 1].data[n][k]
                                    * feedback_matrices[i + 1].data[k][j]],
                                 deltas[i + 1].shape[2])
                      ELSE 0

C3_Witness ==
    /\ Returned /\ L = MaxLayers
    /\ feedback_matrices[L] # weights[L]
    /\ \E n \in 1..deltas[L - 1].shape[1], j \in 1..deltas[L - 1].shape[2] :
          /\ SavedZ(L - 2).data[n][j] = 0
          /\ SumFn([k \in 1..deltas[L].shape[2] |->
                      deltas[L].data[n][k] * feedback_matrices[L].data[k][j]],
                   deltas[L].shape[2]) # 0
    /\ \E n \in 1..deltas[1].shape[1], j \in 1..deltas[1].shape[2] :
          SavedZ(0).data[n][j] > 0 /\ deltas[1].data[n][j] # 0

\* C4: the last layer's delta is grad_output; every weight gradient is
\* transpose(delta_i) times a_i, every bias gradient the batch sum of delta_i,
\* a_0 being the input
C4_GradientsFromDeltas ==
    Returned =>
        /\ deltas[L] = grad_output
        /\ SavedA(0) = input
        /\ \A i \in 0..L - 1 :
              LET d == deltas[i + 1]
                  a == SavedA(i)
              IN  /\ RetW(i) = Tensor2(d.shape[2], a.shape[2],
                                       [o \in 1..d.shape[2], k \in 1..a.shape[2] |-> SumFn([n \in 1..d.shape[1] |->
                                                              d.data[n][o] * a.data[n][k]],
                                                           d.shape[1])])
                  /\ RetB(i) = Tensor1(d.shape[2],
                                       [o \in 1..d.shape[2] |-> SumFn([n \in 1..d.shape[1] |-> d.data[n][o]],
                                                        d.shape[1])])

C4_Witness ==
    /\ Returned /\ L >= 2 /\ grad_output.shape[1] >= 2
    /\ \A i \in 0..L - 1 : NonZero2(RetW(i))

\* C5: forward computes z_i = a_i W_i^T + b_i layer by layer from the input,
\* applies relu between layers and none after the last, returns a_L, and the
\* result is the same for every value of the feedback matrices
C5_ForwardComputation ==
    (Forwarded /\ ShapeConsistent(input, weights, biases)) =>
        /\ SavedA(0) = input
        /\ output = SavedA(L)
        /\ SavedA(L) = SavedZ(L - 1)
        /\ \A i \in 0..L - 1 :
              LET a == SavedA(i)
                  W == weights[i + 1]
                  b == biases[i + 1]
              IN  SavedZ(i) = Tensor2(a.shape[1], W.shape[1],
                                      [n \in 1..a.shape[1], o \in 1..W.shape[1] |-> SumFn([k \in 1..a.shape[2] |->
                                                             a.data[n][k] * W.data[o][k]],
                                                          a.shape[2]) + b.data[o]])
        /\ \A i \in 0..L - 2 :
              LET z == SavedZ(i) IN
              SavedA(i + 1) = Tensor2(z.shape[1], z.shape[2],
                                      [n \in 1..z.shape[1], o \in 1..z.shape[2] |-> IF z.data[n][o] > 0 THEN z.data[n][o]
                                                    ELSE 0])
        /\ \A fseed \in FnSeeds :
              forward(input, weights \o biases
                             \o [k \in 1..L |-> Rand2(fseed + k + 2,
                                                      feedback_matrices[k].shape[1],
                                                      feedback_matrices[k].shape[2])]).out
                  = output

C5_Witness ==
    /\ Forwarded /\ ShapeConsistent(input, weights, biases) /\ L >= 2
    /\ \E n \in 1..output.shape[1], o \in 1..output.shape[2] : output.data[n][o] < 0
    /\ \E n \in 1..SavedZ(0).shape[1], o \in 1..SavedZ(0).shape[2] : SavedZ(0).data[n][o] < 0
    /\ \E n \in 1..SavedZ(0).shape[1], o \in 1..SavedZ(0).shape[2] : SavedZ(0).data[n][o] > 0

\* C6: on a constructed model backward completes without an error and every
\* weight (bias) gradient has exactly the shape of its weight (bias)
C6_GradientShapes ==
    last = "backward" =>
        /\ err = "none"
        /\ Len(ret) = 1 + 3 * L
        /\ \A i \in 0..L - 1 :
              /\ RetW(i).shape = weights[i + 1].shape
              /\ RetB(i).shape = biases[i + 1].shape
              /\ DOMAIN RetW(i).data = 1..weights[i + 1].shape[1]
              /\ \A o \in DOMAIN RetW(i).data :
                    DOMAIN RetW(i).data[o] = 1..weights[i + 1].shape[2]
              /\ DOMAIN RetB(i).data = 1..biases[i + 1].shape[1]

C6_Witness ==
    /\ last = "backward" /\ L = MaxHidden + 1
    /\ weights[1].shape # weights[L].shape
    /\ weights[L].shape[1] # weights[L].shape[2]
    /\ grad_output.shape[1] = MaxBatch

\* C7: the constructed layers chain from input_size to output_size, and forward
\* on an input of shape (N, input_size) returns shape (N, output_size)
C7_ShapeLaw ==
    pc \in {"ready", "forwarded", "backwarded"} =>
        /\ L = Len(config.hidden_sizes) + 1
        /\ Len(biases) = L /\ Len(feedback_matrices) = L
        /\ weights[1].shape[2] = config.input_size
        /\ \A k \in 2..L : weights[k].shape[2] = weights[k - 1].shape[1]
        /\ \A k \in 1..L - 1 : weights[k].shape[1] = config.hidden_sizes[k]
        /\ weights[L].shape[1] = config.output_size
        /\ (last = "forward" /\ input.shape[2] = config.input_size) =>
              /\ err = "none"
              /\ output.kind = "Tensor"
              /\ output.shape = <<input.shape[1], config.output_size>>

C7_Witness ==
    /\ last = "forward" /\ pc = "forwarded"
    /\ Len(config.hidden_sizes) = MaxHidden
    /\ config.input_size # config.hidden_sizes[1]
    /\ config.hidden_sizes[MaxHidden] # config.output_size
    /\ input.shape = <<MaxBatch, config.input_size>>

\* C8: with one layer the returned weight and bias gradients are those of
\* backpropagation through the affine layer, transpose(grad_output) times
\* input and the batch sum of grad_output, whatever the feedback matrix
C8_SingleLayerIsBackprop ==
    (Returned /\ L = 1 /\ ShapeConsistent(input, weights, biases)) =>
        /\ RetW(0) = Tensor2(weights[1].shape[1], weights[1].shape[2],
                             [o \in 1..weights[1].shape[1], k \in 1..weights[1].shape[2] |-> SumFn([n \in 1..input.shape[1] |->
                                                    grad_output.data[n][o] * input.data[n][k]],
                                                 input.shape[1])])
        /\ RetB(0) = Tensor1(biases[1].shape[1],
                             [o \in 1..biases[1].shape[1] |-> SumFn([n \in 1..input.shape[1] |->
                                                 grad_output.data[n][o]],
                                              input.shape[1])])
        /\ \A fseed \in FnSeeds :
              LET other == [ctx EXCEPT !.saved_tensors[3] =
                                Rand2(fseed + 3, weights[1].shape[1], weights[1].shape[2])]
              IN  backward(other, grad_output).ret = ret

C8_Witness ==
    /\ Returned /\ L = 1 /\ ShapeConsistent(input, weights, biases)
    /\ input.shape[1] >= 2 /\ weights[1].shape = <<MaxFnWidth, MaxFnWidth>>
    /\ NonZero2(feedback_matrices[1]) /\ feedback_matrices[1] # weights[1]
    /\ NonZero2(RetW(0))

\* C9: constructing with an empty hidden_sizes fails and leaves no weight, bias
\* or feedback parameter created
C9_EmptyHiddenFailsClean ==
    (last = "construct" /\ config.hidden_sizes = <<>>) =>
        /\ pc = "dead" /\ err # "none"
        /\ weights = <<>> /\ biases = <<>> /\ feedback_matrices = <<>>

\* C10: forward on tensors that are not shape-consistent fails before any
\* layer's arithmetic has been performed
C10_ShapeErrorBeforeArithmetic ==
    (last = "forward" /\ ~ShapeConsistent(input, weights, biases)) =>
        /\ err # "none"
        /\ matmuls = 0

====
